---------------------------- MODULE Spec2Model ----------------------------
(***************************************************************************)
(* A model of src/src/bloom_filter.c: the shard planner, the Bloom filter  *)
(* (bit array, hash triad, insert counter), the populate loop that         *)
(* distributes corpus lines over the shards, and the membership query.     *)
(*                                                                         *)
(* bloom_filter.h (BLOOM_SIZE, the BloomFilter struct) and the program's   *)
(* main are not among the sources.  BLOOM_SIZE is a build-time value: it   *)
(* is a variable fixed by the initial state.  XXH32 is the xxHash library: *)
(* a deterministic function of (data, seed), fixed by the initial state.   *)
(***************************************************************************)
EXTENDS Integers, Sequences, FiniteSets, TLC

VARIABLES
    BLOOM_SIZE,      \* the build's filter width in bits (bloom_filter.h)
    XXH32,           \* the hash: data -> <<value for seed 0, seed 1, seed 2>>
    file,            \* the corpus file: [exists, readable, bytes]
    num_filters,     \* the length of the filters array
    filters,         \* filters[0 .. num_filters-1]: [bit_array, size, count]
    pc,              \* where the program is
    current_filter,  \* populate's cursor
    bytes_left,      \* what fgets has not read yet
    inserted,        \* history: inserted[i] = the keys bloom_insert put in filters[i]
    ops,             \* history: ops[i] = the number of bloom_insert calls on filters[i]
    wrapped,         \* history: the cursor has gone from the last shard back to 0
    wellformed,      \* history: every line read so far had a whole key and a newline
    ub,              \* history: an access outside a bit array has happened
    query,           \* the last query: <<>> or [key, result, repeated]
    plan_arg,        \* determine_optimal_bloom_filters' argument (a size_t)
    plan_ret         \* and its return value (an int); -1 before the call returns

vars == <<BLOOM_SIZE, XXH32, file, num_filters, filters, pc, current_filter,
          bytes_left, inserted, ops, wrapped, wellformed, ub, query,
          plan_arg, plan_ret>>

---------------------------------------------------------------------------
(* Bounds of the model *)

\* The corpus files have 0 .. MaxFileBytes bytes.
MaxFileBytes == 33

\* The distinct ten-character prefixes that occur in the corpus and in queries.
NumKeys == 2

\* The planner is tried on every file size 0 .. MaxPlanArg (and on the large ones below).
MaxPlanArg == 50

---------------------------------------------------------------------------
(* Program constants *)

\* strncpy(hash_prefix, line, 10)
KEY_LEN == 10

Keys == 1 .. NumKeys

\* The widths the build is tried with (multiples of 8: create_bloom_filter allocates size / 8 bytes).
Widths == {8, 16, 24}

\* The capacities create_bloom_filter is tried with when it is called with a size of the caller's choice.
Capacities == {8, 16, 24, 32}

\* Bytes one fgets call consumes: a short line of three characters and a newline, or
\* a ten-character key and its newline.
LineLens == {4, KEY_LEN + 1}

\* The width and the file sizes of the fullness scenario: 800 bits, and files of 100 and
\* 101 short lines.
FullnessWidth == 8 * 100
FullnessFileBytes == {4 * 100, 4 * 101}

\* The widths the planner is tried with.
PlannerWidths == {1, 2, 8, 16, 24, FullnessWidth}

\* XXH32's values for one key under seeds 0, 1, 2.  Some exceed every width, so the
\* reduction matters; the first two rows agree modulo 24 and differ modulo 8 and 16.
HashRows == << <<1, 10, 19>>, <<25, 10, 43>>, <<7, 7, 30>> >>

\* The hash functions tried: under the first every key hashes alike, under the others
\* the keys take the rows in turn, from a different row each.
HashFunctions ==
    { [k \in Keys |-> HashRows[1]] } \cup
    { [k \in Keys |-> HashRows[((k + shift) % Len(HashRows)) + 1]] : shift \in 0 .. 2 }

---------------------------------------------------------------------------
(* size_t and int.  A size_t is 64 bits wide: four 16-bit limbs, least     *)
(* significant first, so that sums wrap at 2^64 as the machine's do.       *)

Base == 2^16

SizeT(n) == << n % Base, (n \div Base) % Base, 0, 0 >>

SIZE_MAX == << Base - 1, Base - 1, Base - 1, Base - 1 >>

\* a + b modulo 2^64
AddSizeT(a, b) ==
    LET s1 == a[1] + b[1]
        s2 == a[2] + b[2] + (s1 \div Base)
        s3 == a[3] + b[3] + (s2 \div Base)
        s4 == a[4] + b[4] + (s3 \div Base)
    IN  << s1 % Base, s2 % Base, s3 % Base, s4 % Base >>

\* a - b modulo 2^64
SubSizeT(a, b) ==
    LET d1 == a[1] - b[1]
        d2 == a[2] - b[2] - (IF d1 < 0 THEN 1 ELSE 0)
        d3 == a[3] - b[3] - (IF d2 < 0 THEN 1 ELSE 0)
        d4 == a[4] - b[4] - (IF d3 < 0 THEN 1 ELSE 0)
    IN  << d1 % Base, d2 % Base, d3 % Base, d4 % Base >>

\* <<a / d, a % d>> for a divisor 0 < d < 2^15 (long division, top limb first)
DivModSizeT(a, d) ==
    LET q4 == a[4] \div d
        t3 == (a[4] % d) * Base + a[3]
        q3 == t3 \div d
        t2 == (t3 % d) * Base + a[2]
        q2 == t2 \div d
        t1 == (t2 % d) * Base + a[1]
        q1 == t1 \div d
    IN  << <<q1, q2, q3, q4>>, t1 % d >>

\* (int) of a size_t: the low 32 bits, as two's complement
IntOfSizeT(a) ==
    IF a[2] < Base \div 2 THEN a[2] * Base + a[1]
    ELSE (a[2] - Base) * Base + a[1]

---------------------------------------------------------------------------
(* The functions of bloom_filter.c *)

get_file_size(f) == IF f.exists THEN f.bytes ELSE 0

determine_optimal_bloom_filters(file_size) ==
    LET filter_size_bits == SizeT(BLOOM_SIZE)
        sum == SubSizeT(AddSizeT(file_size, filter_size_bits), SizeT(1))
    IN  IntOfSizeT(DivModSizeT(sum, BLOOM_SIZE)[1])

\* the null pointer
NULL == [null |-> TRUE]

\* mem: malloc and calloc find the memory.
create_bloom_filter(size, mem) ==
    IF mem
    THEN [ bit_array |-> [b \in 0 .. (size \div 8) - 1 |-> 0],
           size      |-> size,
           count     |-> 0 ]
    ELSE NULL

\* byte | mask, for a mask of one bit
BitOr(byte, mask) == IF (byte \div mask) % 2 = 1 THEN byte ELSE byte + mask

\* byte & mask, for a mask of one bit
BitAnd(byte, mask) == ((byte \div mask) % 2) * mask

\* The index is inside the array the filter owns.
InArray(bit_array, index) == (index \div 8) \in DOMAIN bit_array

\* set_bit with = for |=: the byte's other bits are lost.
set_bit_assign(bit_array, index) ==
    IF InArray(bit_array, index)
    THEN [bit_array EXCEPT ![index \div 8] = 2^(index % 8)]
    ELSE bit_array

\* bit_array[index / 8] |= (1 << (index % 8)).  A write past the end of the array is
\* undefined: it leaves the array itself as it was (the action that calls it records ub).
set_bit(bit_array, index) ==
    IF InArray(bit_array, index)
    THEN [bit_array EXCEPT ![index \div 8] = BitOr(@, 2^(index % 8))]
    ELSE bit_array

get_bit(bit_array, index) == BitAnd(bit_array[index \div 8], 2^(index % 8))

xxhash1(data) == XXH32[data][1] % BLOOM_SIZE

xxhash2(data) == XXH32[data][2] % BLOOM_SIZE

xxhash3(data) == XXH32[data][3] % BLOOM_SIZE

\* bloom_insert without its third set_bit.
bloom_insert_two_bits(filter, data) ==
    [ filter EXCEPT
        !.bit_array = set_bit(set_bit(@, xxhash1(data)), xxhash2(data)),
        !.count = @ + 1 ]

\* bloom_insert counting only the inserts that set a new bit.
bloom_insert_counts_new(filter, data) ==
    LET bits == set_bit(set_bit(set_bit(filter.bit_array, xxhash1(data)), xxhash2(data)), xxhash3(data))
    IN  [ filter EXCEPT
            !.bit_array = bits,
            !.count = IF bits = filter.bit_array THEN @ ELSE @ + 1 ]

bloom_insert(filter, data) ==
    [ filter EXCEPT
        !.bit_array = set_bit(set_bit(set_bit(@, xxhash1(data)), xxhash2(data)), xxhash3(data)),
        !.count = @ + 1 ]

\* bloom_filter_is_full with > for >=.
bloom_filter_is_full_gt(filter) == filter.count > filter.size \div 8

\* bloom_filter_is_full without the division by 8.
bloom_filter_is_full_bits(filter) == filter.count >= filter.size

bloom_filter_is_full(filter) == filter.count >= filter.size \div 8

bloom_contains(filter, data) ==
    /\ get_bit(filter.bit_array, xxhash1(data)) # 0
    /\ get_bit(filter.bit_array, xxhash2(data)) # 0
    /\ get_bit(filter.bit_array, xxhash3(data)) # 0

\* bloom_insert or bloom_contains on this filter and key touches memory outside the array.
OutOfBounds(filter, data) ==
    \/ ~InArray(filter.bit_array, xxhash1(data))
    \/ ~InArray(filter.bit_array, xxhash2(data))
    \/ ~InArray(filter.bit_array, xxhash3(data))

\* The query over the shard set: the OR of bloom_contains over every shard.
contains_any(fs, data) == \E i \in DOMAIN fs : bloom_contains(fs[i], data)

\* The cursor after an insert without the wrap-around: it stops at the last shard.
next_filter_no_wrap(filter, current, n) ==
    IF bloom_filter_is_full(filter) /\ current + 1 < n THEN current + 1 ELSE current

\* The cursor after an insert into filters[current], `filter` being that shard after
\* the insert: if (bloom_filter_is_full(..)) current_filter = (current_filter + 1) % num_filters
next_filter(filter, current, n) ==
    IF bloom_filter_is_full(filter) THEN (current + 1) % n ELSE current

\* hash_prefix: the first ten characters of the line.  A line is [head, len]: what its
\* first ten bytes hold, and how many bytes fgets consumed for it.
hash_prefix(line) == line.head

---------------------------------------------------------------------------
(* The initial states: main has taken the file's size, planned the shard   *)
(* count and allocated the shard set.                                      *)

Files ==
    { [exists |-> e, readable |-> r, bytes |-> n] :
        e \in BOOLEAN, r \in BOOLEAN, n \in 0 .. MaxFileBytes }

\* The shard set main allocates for file f, every shard created with `size` bits.  When
\* a create_bloom_filter returns NULL, main gives the shard set up and stops.
InitShards(f, width, size, mem) ==
    /\ BLOOM_SIZE = width
    /\ XXH32 \in HashFunctions
    /\ file = f
    /\ (f.readable => f.exists) /\ (f.exists \/ f.bytes = 0)
    /\ num_filters = determine_optimal_bloom_filters(SizeT(get_file_size(f)))
    /\ LET made == [i \in 0 .. num_filters - 1 |-> create_bloom_filter(size, mem)]
       IN  IF \E i \in DOMAIN made : made[i] = NULL
           THEN filters = <<>> /\ pc = "aborted"
           ELSE filters = made /\ pc = "ready"
    /\ current_filter = 0
    /\ bytes_left = 0
    /\ inserted = [i \in DOMAIN filters |-> {}]
    /\ ops = [i \in DOMAIN filters |-> 0]
    /\ wrapped = FALSE
    /\ wellformed = TRUE
    /\ ub = FALSE
    /\ query = <<>>
    /\ plan_arg = SizeT(0)
    /\ plan_ret = -1

\* The program: every shard has the build's width.
Init == \E f \in Files, w \in Widths, mem \in BOOLEAN : InitShards(f, w, w, mem)

---------------------------------------------------------------------------
(* The actions *)

populateVars == <<current_filter, bytes_left, inserted, ops, wrapped, wellformed>>
configVars == <<BLOOM_SIZE, XXH32, file, num_filters>>
planVars == <<plan_arg, plan_ret>>

\* split_into_bloom_filters with its test of fopen's result inverted.
split_into_bloom_filters_inverted ==
    /\ pc = "ready"
    /\ IF file.readable
       THEN /\ pc' = "done"
            /\ UNCHANGED <<current_filter, bytes_left>>
       ELSE /\ pc' = "populate"
            /\ current_filter' = 0
            /\ bytes_left' = file.bytes
    /\ UNCHANGED <<configVars, filters, inserted, ops, wrapped, wellformed, ub, query, planVars>>

\* split_into_bloom_filters up to its call of populate_recursive_bloom_filters(.., 0)
split_into_bloom_filters ==
    /\ pc = "ready"
    /\ IF ~file.readable
       THEN /\ pc' = "done"
            /\ UNCHANGED <<current_filter, bytes_left>>
       ELSE /\ pc' = "populate"
            /\ current_filter' = 0
            /\ bytes_left' = file.bytes
    /\ UNCHANGED <<configVars, filters, inserted, ops, wrapped, wellformed, ub, query, planVars>>

\* One iteration of populate's loop: fgets returns a line of len bytes whose first ten
\* characters are head.
ReadLine(head, len) ==
    /\ pc = "populate"
    /\ len <= bytes_left
    /\ bytes_left' = bytes_left - len
    /\ wellformed' = (wellformed /\ len >= KEY_LEN + 1)
    /\ IF current_filter \notin DOMAIN filters
       THEN \* filters[current_filter] with an empty array: undefined
            /\ pc' = "crashed"
            /\ ub' = TRUE
            /\ UNCHANGED <<filters, current_filter, inserted, ops, wrapped>>
       ELSE LET key == hash_prefix([head |-> head, len |-> len])
                oob == OutOfBounds(filters[current_filter], key)
                after == bloom_insert(filters[current_filter], key)
                full == bloom_filter_is_full(after)
                next == next_filter(after, current_filter, num_filters)
            IN  /\ filters' = [filters EXCEPT ![current_filter] = after]
                /\ inserted' = [inserted EXCEPT ![current_filter] = @ \cup {key}]
                /\ ops' = [ops EXCEPT ![current_filter] = @ + 1]
                /\ current_filter' = next
                /\ wrapped' = (wrapped \/ (next = 0 /\ full))
                /\ ub' = (ub \/ oob)
                   \* a write outside the array may end the process, or go unnoticed
                /\ pc' \in (IF oob THEN {"populate", "crashed"} ELSE {"populate"})
    /\ UNCHANGED <<configVars, query, planVars>>

populate_recursive_bloom_filters ==
    \E head \in Keys, len \in LineLens : ReadLine(head, len)

\* fgets returns NULL at the end of the file, populate returns and
\* split_into_bloom_filters closes the file.  (A read error ends the loop the same way:
\* the program then behaves as on the shorter file, with the shard count of the longer.)
EndOfFile ==
    /\ pc = "populate"
    /\ bytes_left = 0
    /\ pc' = "done"
    /\ UNCHANGED <<configVars, filters, populateVars, ub, query, planVars>>

\* A query whose bloom_contains calls set_bit where it should call get_bit.
Query_sets(data) ==
    /\ pc = "done"
    /\ LET again == (query # <<>> /\ query.key = data)
       IN  /\ query' = [key |-> data, result |-> contains_any(filters, data), repeated |-> again]
           /\ filters' = [i \in DOMAIN filters |->
                 [filters[i] EXCEPT !.bit_array =
                    set_bit(set_bit(set_bit(@, xxhash1(data)), xxhash2(data)), xxhash3(data))]]
    /\ UNCHANGED <<configVars, pc, populateVars, ub, planVars>>

\* A query for key data over the populated shard set.
Query(data) ==
    /\ pc = "done"
    /\ LET again == (query # <<>> /\ query.key = data)
           oob == \E i \in DOMAIN filters : OutOfBounds(filters[i], data)
       IN  /\ ub' = (ub \/ oob)
           /\ \E r \in (IF oob THEN BOOLEAN ELSE {contains_any(filters, data)}) :
                 query' = [key |-> data, result |-> r, repeated |-> again]
    /\ UNCHANGED <<configVars, filters, pc, populateVars, planVars>>

bloom_contains_call == \E data \in Keys : Query(data)

Next ==
    \/ split_into_bloom_filters
    \/ populate_recursive_bloom_filters
    \/ EndOfFile
    \/ bloom_contains_call

Spec == Init /\ [][Next]_vars

---------------------------------------------------------------------------
(* create_bloom_filter called with a size of the caller's choice *)

InitAnyCapacity ==
    \E f \in Files, w \in Widths, c \in Capacities, mem \in BOOLEAN : InitShards(f, w, c, mem)

SpecAnyCapacity == InitAnyCapacity /\ [][Next]_vars

---------------------------------------------------------------------------
(* The fullness scenario: the program as above, and a build of 800 bits    *)
(* per filter run on files of 100 and 101 lines.                           *)

InitFullness ==
    \/ Init
    \/ \E n \in FullnessFileBytes :
          InitShards([exists |-> TRUE, readable |-> TRUE, bytes |-> n],
                     FullnessWidth, FullnessWidth, TRUE)

SpecFullness == InitFullness /\ [][Next]_vars

---------------------------------------------------------------------------
(* The planner alone, on file sizes up to SIZE_MAX *)

\* 2^32 * w: <<0, 0, w, 0>>;  2^63 - 1, the largest st_size: the top limb 2^15 - 1
PlanArgs ==
    { SizeT(n) : n \in 0 .. MaxPlanArg } \cup
    { << 0, 0, w, 0 >> : w \in PlannerWidths } \cup
    { SubSizeT(SIZE_MAX, SizeT(d)) : d \in 0 .. 2 } \cup
    { << Base - 1, Base - 1, Base - 1, (Base \div 2) - 1 >> }

InitPlanner ==
    /\ BLOOM_SIZE \in PlannerWidths
    /\ XXH32 = [k \in Keys |-> HashRows[1]]
    /\ file = [exists |-> FALSE, readable |-> FALSE, bytes |-> 0]
    /\ num_filters = 0
    /\ filters = <<>>
    /\ pc = "plan"
    /\ current_filter = 0
    /\ bytes_left = 0
    /\ inserted = <<>>
    /\ ops = <<>>
    /\ wrapped = FALSE
    /\ wellformed = TRUE
    /\ ub = FALSE
    /\ query = <<>>
    /\ plan_arg \in PlanArgs
    /\ plan_ret = -1

PlannerCall ==
    /\ pc = "plan"
    /\ plan_ret' = determine_optimal_bloom_filters(plan_arg)
    /\ pc' = "planned"
    /\ UNCHANGED <<configVars, filters, populateVars, ub, query, plan_arg>>

NextPlanner == PlannerCall

SpecPlanner == InitPlanner /\ [][NextPlanner]_vars

---------------------------------------------------------------------------
(* The properties *)

Shards == DOMAIN filters

\* The fullness threshold of shard i.
Threshold(i) == filters[i].size \div 8

\* Every shard was created with the build's width, and their number is the planner's.
Planned ==
    /\ num_filters = determine_optimal_bloom_filters(SizeT(file.bytes))
    /\ \A i \in Shards : filters[i].size = BLOOM_SIZE

\* C1: no false negatives within one filter.  Every key bloom_insert has put into a
\* filter is found by bloom_contains in that filter, right after its insert and after
\* every later insert of any key.
C1_NoFalseNegativeInFilter ==
    \A i \in Shards : \A k \in inserted[i] : bloom_contains(filters[i], k)

\* A filter that took a key and then further inserts, of another key too.
C1_Witness ==
    \E i \in Shards : Cardinality(inserted[i]) >= 2 /\ ops[i] >= 3

\* C2: no false negatives over the shard set.  Once populate has consumed the corpus,
\* every key taken from a corpus line is found in at least one shard.
C2_NoFalseNegativeInShardSet ==
    (pc = "done" /\ file.readable) =>
        \A i \in Shards : \A k \in inserted[i] : contains_any(filters, k)

\* A populated set of several shards, the keys spread over more than one of them, the
\* cursor having wrapped.
C2_Witness ==
    /\ pc = "done" /\ file.readable /\ num_filters >= 2 /\ wrapped
    /\ \E i, j \in Shards : i # j /\ inserted[i] # {} /\ inserted[j] # {} /\ inserted[i] # inserted[j]

\* ceil(a / d) of a size_t, computed without wrap-around
CeilDivSizeT(a, d) ==
    LET qr == DivModSizeT(a, d)
    IN  IF qr[2] = 0 THEN qr[1] ELSE AddSizeT(qr[1], SizeT(1))

\* C3: planner correctness.  For every file size n >= 0 and width w > 0,
\* determine_optimal_bloom_filters returns ceil(n / w).
C3_PlannerIsCeil ==
    pc = "planned" =>
        /\ plan_ret >= 0
        /\ SizeT(plan_ret) = CeilDivSizeT(plan_arg, BLOOM_SIZE)

\* What does hold: the planner returns ceil(n / w) when n + w - 1 does not wrap and
\* the quotient fits an int.
PlannerIsCeilInRange ==
    (pc = "planned" /\ plan_arg[3] = 0 /\ plan_arg[4] = 0 /\ plan_arg[2] < Base \div 4) =>
        /\ plan_ret >= 0
        /\ SizeT(plan_ret) = CeilDivSizeT(plan_arg, BLOOM_SIZE)

\* C4: fullness counts insert operations.  A filter is full exactly when the number of
\* bloom_insert calls made on it, duplicates included, has reached capacity_bits / 8;
\* a filter of 800 bits is full from its 100th insert on and not before.
C4_FullnessCountsInserts ==
    \A i \in Shards :
        /\ filters[i].count = ops[i]
        /\ bloom_filter_is_full(filters[i]) <=> (ops[i] >= filters[i].size \div 8)
        /\ filters[i].size = 800 => (bloom_filter_is_full(filters[i]) <=> ops[i] >= 100)

\* The filter of 800 bits after its 100th insert, most of them duplicates: full.
C4_Witness ==
    \E i \in Shards :
        /\ filters[i].size = 800 /\ ops[i] = 100
        /\ Cardinality(inserted[i]) < ops[i]
        /\ bloom_filter_is_full(filters[i])

\* C5: the rotation rule.  populate starts with the cursor at shard 0; a line goes into
\* the shard the cursor points at before the line is processed, whether that shard is
\* full or not, and into no other; the cursor then moves to (cursor + 1) mod shard_count
\* if that shard is full, and stays otherwise.
C5_RotationRule ==
    [][ /\ (pc = "ready" /\ pc' = "populate") => current_filter' = 0
        /\ (pc = "populate" /\ bytes_left' # bytes_left) =>
              /\ filters'[current_filter].count = filters[current_filter].count + 1
              /\ ops'[current_filter] = ops[current_filter] + 1
              /\ \A j \in Shards \ {current_filter} : filters'[j] = filters[j] /\ ops'[j] = ops[j]
              /\ current_filter' =
                    IF filters'[current_filter].count >= filters'[current_filter].size \div 8
                    THEN (current_filter + 1) % num_filters
                    ELSE current_filter
      ]_vars

\* Every shard is full, the cursor has wrapped from the last shard to shard 0, and a
\* shard that was already full has taken a further insert.
C5_Witness ==
    /\ num_filters >= 2 /\ wrapped
    /\ \A i \in Shards : bloom_filter_is_full(filters[i])
    /\ \E i \in Shards : filters[i].count > Threshold(i)

\* C6: the bit-index invariant.  Whatever multiple of 8 a filter was created with, its
\* bit array has capacity_bits / 8 bytes and every bit index bloom_insert has set in it
\* lies in [0, capacity_bits).
C6_BitIndexWithinCapacity ==
    \A i \in Shards :
        /\ Cardinality(DOMAIN filters[i].bit_array) = filters[i].size \div 8
        /\ \A k \in inserted[i] :
              /\ xxhash1(k) < filters[i].size
              /\ xxhash2(k) < filters[i].size
              /\ xxhash3(k) < filters[i].size

\* What does hold: in the program, whose shards all have the build's width, no access
\* leaves a bit array.
NoAccessOutsideArray == ~ub

\* C7: when the corpus cannot be opened, split_into_bloom_filters returns with every
\* filter as it was created: all bits zero, count 0, no insert performed.
C7_OpenFailureLeavesShardsUntouched ==
    (pc = "done" /\ ~file.readable) =>
        \A i \in Shards :
            /\ ops[i] = 0
            /\ filters[i].count = 0
            /\ \A b \in DOMAIN filters[i].bit_array : filters[i].bit_array[b] = 0

\* split_into_bloom_filters has returned from a file that exists, has bytes, and
\* cannot be opened.
C7_Witness ==
    /\ pc = "done" /\ ~file.readable /\ file.exists /\ file.bytes > 0
    /\ num_filters >= 1

\* C8: a query is read-only and repeatable.  It changes no filter and does not move
\* the cursor, and a query repeated with no insert in between returns what it
\* returned before.
C8_QueryReadOnlyRepeatable ==
    [][ query' # query =>
          /\ filters' = filters
          /\ current_filter' = current_filter
          /\ ops' = ops
          /\ (query # <<>> /\ query'.key = query.key) => query'.result = query.result
      ]_vars

\* A key that is in no shard was asked for twice in a row over a populated shard set.
C8_Witness ==
    /\ pc = "done" /\ query # <<>> /\ query.repeated /\ ~query.result
    /\ \E i \in Shards : inserted[i] # {}

\* C9: the fill order.  Until the cursor first wraps, the shards below the cursor hold
\* exactly T inserts, the shard at the cursor fewer than T, the shards above it none.
\* Once every shard has reached T, the lines go round the shards in turn: the shards
\* below the cursor are one insert ahead of the others, so any two counts differ by at
\* most 1.
C9_FillOrder ==
    /\ (num_filters >= 1 /\ ~wrapped) =>
          \A i \in Shards :
              /\ i < current_filter => filters[i].count = Threshold(i)
              /\ i = current_filter => filters[i].count < Threshold(i)
              /\ i > current_filter => filters[i].count = 0
    /\ (num_filters >= 1 /\ \A i \in Shards : filters[i].count >= Threshold(i)) =>
          /\ \A i, j \in Shards :
                /\ filters[i].count - filters[j].count <= 1
                /\ (i < current_filter /\ j >= current_filter) =>
                      filters[i].count = filters[j].count + 1

\* Three shards or more, all past T, the cursor in the middle of a later round.
C9_Witness ==
    /\ num_filters >= 3 /\ wrapped /\ current_filter = 1
    /\ \A i \in Shards : filters[i].count >= Threshold(i)
    /\ filters[0].count > filters[2].count

\* C10: the planner's capacity suffices for well-formed corpora.  With the planner's
\* shard count, every shard of the build's width W, and every line at least 11 bytes
\* long, no shard ever holds more than W / 8 inserts: no line goes into a full shard.
C10_PlannedCapacitySuffices ==
    (Planned /\ wellformed) =>
        /\ \A i \in Shards : filters[i].count <= BLOOM_SIZE \div 8
        /\ \A i \in Shards : ops[i] <= BLOOM_SIZE \div 8
        /\ (pc = "populate" /\ num_filters >= 1) =>
              ~bloom_filter_is_full(filters[current_filter])

\* A corpus of three well-formed lines has been consumed; they filled shards to the
\* threshold and moved the cursor on.
C10_Witness ==
    /\ Planned /\ wellformed /\ pc = "done" /\ file.readable
    /\ file.bytes >= 3 * (KEY_LEN + 1)
    /\ current_filter >= 1
    /\ filters[0].count = Threshold(0)

=============================================================================
